---- MODULE Spec2Model ----
(***************************************************************************)
(* Model of the css selector builder of src/src/05-objects-tasks.js:       *)
(* the class SelectorBuilder (usedSelectors, str, the six fragment         *)
(* methods, process, stringify) and the object cssSelectorBuilder (six     *)
(* entry points that allocate a SelectorBuilder, combine and stringify,    *)
(* both of which work on the property str of cssSelectorBuilder itself).   *)
(*                                                                         *)
(* Javascript strings are TLA+ strings, and += and template literals are   *)
(* string concatenation (\o).  Objects live in a heap: builders is the     *)
(* sequence of the SelectorBuilder instances in allocation order, facade   *)
(* is the one object cssSelectorBuilder.  A reference is a record          *)
(* [obj, idx]: [obj |-> "builder", idx |-> i] is the i-th instance, and    *)
(* [obj |-> "facade", idx |-> j] is the value the j-th call of combine     *)
(* returned, which is cssSelectorBuilder itself for every j.               *)
(***************************************************************************)
EXTENDS Integers, Sequences, FiniteSets, TLC

VARIABLES
    builders,   \* heap: the SelectorBuilder instances, [usedSelectors, str]
    facade,     \* own data properties of cssSelectorBuilder: none, or [str]
    fragments,  \* history: fragments[i] is the <<method, value>> calls builders[i] accepted
    returned,   \* history: returned[j] is the string of the j-th combine on return
    rectangle,  \* the object new Rectangle made and the scope of that call, or NoObject
    json,       \* getJSON and fromJSON: [pc, obj, proto, text, res]
    last        \* the call made last: [op, recv, args, thrown, ret]

vars == <<builders, facade, fragments, returned, rectangle, json, last>>

\* The state of Rectangle, getJSON and fromJSON.
helpers == <<rectangle, json>>

\* The state of SelectorBuilder and cssSelectorBuilder.
selectors == <<builders, facade, fragments, returned>>

\* ------------------------------------------------------------- bounds
\* Spec: fragments appended, over all builders together.
MaxFragments == 3
\* SpecCombine: fragments appended and calls of combine, together.
MaxCalls == 4

\* Spec: values passed to the fragment methods.
Values == {"a", "b"}
\* SpecCombine: values passed to the fragment methods.
OperandValues == {"a"}
\* Combinator tokens passed to combine.
Tokens == {"+", " "}

\* ------------------------------------------------------------- constants
order == <<"el", "id", "class", "attr", "pseudoClass", "pseudoEl">>

\* oneTimeSelectors with class among the kinds.
oneTimeSelectors_WithClass == <<"el", "id", "class", "pseudoEl">>

oneTimeSelectors == <<"el", "id", "pseudoEl">>

error1 == "Element, id and pseudo-element should not occur more then one time inside the selector"

error2 == "Selector parts should be arranged in the following order: element, id, class, attribute, pseudo-class, pseudo-element"

\* The value of an array element that does not exist.
Undefined == "<undefined>"

\* No error thrown.
NoError == ""

\* ------------------------------------------------------------- Array.prototype
\* indexOf that answers arr.length, not -1, when x is no element of arr.
IndexOf_EndWhenAbsent(arr, x) ==
    IF \E n \in 1..Len(arr) : arr[n] = x
    THEN (CHOOSE n \in 1..Len(arr) : arr[n] = x /\ \A m \in 1..(n - 1) : arr[m] # x) - 1
    ELSE Len(arr)

\* Array.prototype.indexOf, 0-based, -1 when x is no element of arr.
IndexOf(arr, x) ==
    IF \E n \in 1..Len(arr) : arr[n] = x
    THEN (CHOOSE n \in 1..Len(arr) : arr[n] = x /\ \A m \in 1..(n - 1) : arr[m] # x) - 1
    ELSE -1

\* Array.prototype.includes.
Includes(arr, x) == \E n \in 1..Len(arr) : arr[n] = x

\* arr[arr.length - 1]: undefined for the empty array.
LastOf(arr) == IF Len(arr) = 0 THEN Undefined ELSE arr[Len(arr)]

\* ------------------------------------------------------------- SelectorBuilder
\* constructor()
NewSelectorBuilder == [usedSelectors |-> <<>>, str |-> ""]

\* process without its second check: no ordering error is ever thrown.
process_NoOrderCheck(this, selector) ==
    IF LastOf(this.usedSelectors) = selector /\ Includes(oneTimeSelectors, selector)
    THEN [thrown |-> error1, this |-> this]
    ELSE [thrown |-> NoError,
          this |-> [this EXCEPT !.usedSelectors = Append(@, selector)]]

\* process with the ordering check off by one: a step down of one rank passes.
process_OffByOne(this, selector) ==
    IF LastOf(this.usedSelectors) = selector /\ Includes(oneTimeSelectors, selector)
    THEN [thrown |-> error1, this |-> this]
    ELSE IF IndexOf(order, LastOf(this.usedSelectors)) > IndexOf(order, selector) + 1
    THEN [thrown |-> error2, this |-> this]
    ELSE [thrown |-> NoError,
          this |-> [this EXCEPT !.usedSelectors = Append(@, selector)]]

\* process with the two checks in one, >= for >: a repeated kind is an
\* ordering error.
process_OrderCheckOnly(this, selector) ==
    IF IndexOf(order, LastOf(this.usedSelectors)) >= IndexOf(order, selector)
    THEN [thrown |-> error2, this |-> this]
    ELSE [thrown |-> NoError,
          this |-> [this EXCEPT !.usedSelectors = Append(@, selector)]]

\* process with the first check made against every kind recorded, not the
\* last one alone.
process_WholeHistory(this, selector) ==
    IF Includes(this.usedSelectors, selector) /\ Includes(oneTimeSelectors, selector)
    THEN [thrown |-> error1, this |-> this]
    ELSE IF IndexOf(order, LastOf(this.usedSelectors)) > IndexOf(order, selector)
    THEN [thrown |-> error2, this |-> this]
    ELSE [thrown |-> NoError,
          this |-> [this EXCEPT !.usedSelectors = Append(@, selector)]]

\* process that pushes the kind before it checks: a rejected kind stays recorded.
process_PushFirst(this, selector) ==
    LET pushed == [this EXCEPT !.usedSelectors = Append(@, selector)]
    IN  IF LastOf(this.usedSelectors) = selector /\ Includes(oneTimeSelectors, selector)
        THEN [thrown |-> error1, this |-> pushed]
        ELSE IF IndexOf(order, LastOf(this.usedSelectors)) > IndexOf(order, selector)
        THEN [thrown |-> error2, this |-> pushed]
        ELSE [thrown |-> NoError, this |-> pushed]

\* process whose first check leaves oneTimeSelectors out: any repeated kind
\* is thrown as a singleton error.
process_AnyRepeat(this, selector) ==
    IF LastOf(this.usedSelectors) = selector
    THEN [thrown |-> error1, this |-> this]
    ELSE IF IndexOf(order, LastOf(this.usedSelectors)) > IndexOf(order, selector)
    THEN [thrown |-> error2, this |-> this]
    ELSE [thrown |-> NoError,
          this |-> [this EXCEPT !.usedSelectors = Append(@, selector)]]

\* process(selector): the error thrown (NoError when none) and this afterwards.
process(this, selector) ==
    IF LastOf(this.usedSelectors) = selector /\ Includes(oneTimeSelectors, selector)
    THEN [thrown |-> error1, this |-> this]
    ELSE IF IndexOf(order, LastOf(this.usedSelectors)) > IndexOf(order, selector)
    THEN [thrown |-> error2, this |-> this]
    ELSE [thrown |-> NoError,
          this |-> [this EXCEPT !.usedSelectors = Append(@, selector)]]

\* A fragment method: this.process(selector); this.str += text; return this.
\* A throw of process leaves the method before the assignment to str.
Fragment(this, selector, text) ==
    LET p == process(this, selector)
    IN  IF p.thrown # NoError
        THEN p
        ELSE [thrown |-> NoError, this |-> [p.this EXCEPT !.str = @ \o text]]

element(this, value) == Fragment(this, "el", value)

id(this, value) == Fragment(this, "id", "#" \o value)

class(this, value) == Fragment(this, "class", "." \o value)

\* attr that leaves the closing bracket out.
attr_Unclosed(this, value) == Fragment(this, "attr", "[" \o value)

attr(this, value) == Fragment(this, "attr", "[" \o value \o "]")

pseudoClass(this, value) == Fragment(this, "pseudoClass", ":" \o value)

pseudoElement(this, value) == Fragment(this, "pseudoEl", "::" \o value)

\* stringify()
stringify(this) == this.str

\* The names of the six fragment methods.
Methods == {"element", "id", "class", "attr", "pseudoClass", "pseudoElement"}

\* The kind the method hands to process.
SelectorOf(method) ==
    CASE method = "element" -> "el"
      [] method = "id" -> "id"
      [] method = "class" -> "class"
      [] method = "attr" -> "attr"
      [] method = "pseudoClass" -> "pseudoClass"
      [] method = "pseudoElement" -> "pseudoEl"

\* The call this[method](value).
Invoke(method, this, value) ==
    CASE method = "element" -> element(this, value)
      [] method = "id" -> id(this, value)
      [] method = "class" -> class(this, value)
      [] method = "attr" -> attr(this, value)
      [] method = "pseudoClass" -> pseudoClass(this, value)
      [] method = "pseudoElement" -> pseudoElement(this, value)

\* ------------------------------------------------------------- references
BuilderRefs == {[obj |-> "builder", idx |-> i] : i \in 1..Len(builders)}

CompositeRefs == {[obj |-> "facade", idx |-> j] : j \in 1..Len(returned)}

\* cssSelectorBuilder, as the program names it.
FacadeRef == [obj |-> "facade", idx |-> 0]

\* What a call that threw returns: nothing.
NoRef == [obj |-> "none", idx |-> 0]

\* The object a reference points to.
Deref(ref) == IF ref.obj = "builder" THEN builders[ref.idx] ELSE facade

\* Fragments appended so far, over all builders.
TotalFragments ==
    LET sum[n \in 0..Len(builders)] ==
            IF n = 0 THEN 0 ELSE sum[n - 1] + Len(builders[n].usedSelectors)
    IN  sum[Len(builders)]

\* Fragments appended and calls of combine so far.
Calls == TotalFragments + Len(returned)

\* ------------------------------------------------------------- cssSelectorBuilder
\* combine that joins the three strings with nothing around the token.
combineStr_NoSpaces(sel1, combin, sel2) == sel1.str \o combin \o sel2.str

\* combine(sel1, combin, sel2): the value assigned to this.str.
combineStr(sel1, combin, sel2) == sel1.str \o " " \o combin \o " " \o sel2.str

\* No call made yet.
NoCall == [op |-> "none", recv |-> NoRef, args |-> <<>>,
           thrown |-> NoError, ret |-> NoRef]

\* No object made yet.
NoObject == <<>>

Init ==
    /\ builders = <<>>
    /\ facade = <<>>
    /\ fragments = <<>>
    /\ returned = <<>>
    /\ rectangle = NoObject
    /\ json = NoObject
    /\ last = NoCall

\* An entry point that keeps one SelectorBuilder for all its calls: the
\* builder allocated last, when there is one.
FacadeFragment_Shared(recv, method, value) ==
    /\ LET fresh == builders = <<>>
           at == IF fresh THEN 1 ELSE Len(builders)
           r == Invoke(method, IF fresh THEN NewSelectorBuilder ELSE builders[at], value)
       IN  /\ builders' = IF r.thrown # NoError THEN builders
                          ELSE IF fresh THEN <<r.this>>
                          ELSE [builders EXCEPT ![at] = r.this]
           /\ fragments' = IF r.thrown # NoError THEN fragments
                           ELSE IF fresh THEN <<(<<(<<method, value>>)>>)>>
                           ELSE [fragments EXCEPT ![at] = Append(@, <<method, value>>)]
           /\ last' = [op |-> method, recv |-> recv, args |-> <<value>>,
                       thrown |-> r.thrown,
                       ret |-> IF r.thrown = NoError
                               THEN [obj |-> "builder", idx |-> at]
                               ELSE NoRef]
    /\ UNCHANGED <<facade, returned, helpers>>

\* recv.method(value) with recv the object cssSelectorBuilder, reached by its
\* name or as the value a combine returned:
\* (value) => new SelectorBuilder().method(value)
FacadeFragment(recv, method, value) ==
    /\ LET r == Invoke(method, NewSelectorBuilder, value)
       IN  /\ builders' = IF r.thrown = NoError THEN Append(builders, r.this)
                          ELSE builders
           /\ fragments' = IF r.thrown = NoError
                           THEN Append(fragments, <<(<<method, value>>)>>)
                           ELSE fragments
           /\ last' = [op |-> method, recv |-> recv, args |-> <<value>>,
                       thrown |-> r.thrown,
                       ret |-> IF r.thrown = NoError
                               THEN [obj |-> "builder", idx |-> Len(builders) + 1]
                               ELSE NoRef]
    /\ UNCHANGED <<facade, returned, helpers>>

\* A fragment method that works on a copy of this and returns the copy.
BuilderFragment_Copy(recv, method, value) ==
    /\ LET r == Invoke(method, builders[recv.idx], value)
       IN  /\ builders' = IF r.thrown = NoError THEN Append(builders, r.this)
                          ELSE builders
           /\ fragments' = IF r.thrown = NoError
                           THEN Append(fragments,
                                       Append(fragments[recv.idx], <<method, value>>))
                           ELSE fragments
           /\ last' = [op |-> method, recv |-> recv, args |-> <<value>>,
                       thrown |-> r.thrown,
                       ret |-> IF r.thrown = NoError
                               THEN [obj |-> "builder", idx |-> Len(builders) + 1]
                               ELSE NoRef]
    /\ UNCHANGED <<facade, returned, helpers>>

\* recv.method(value) with recv a SelectorBuilder.
BuilderFragment(recv, method, value) ==
    /\ LET r == Invoke(method, builders[recv.idx], value)
       IN  /\ builders' = [builders EXCEPT ![recv.idx] = r.this]
           /\ fragments' = IF r.thrown = NoError
                           THEN [fragments EXCEPT ![recv.idx] = Append(@, <<method, value>>)]
                           ELSE fragments
           /\ last' = [op |-> method, recv |-> recv, args |-> <<value>>,
                       thrown |-> r.thrown,
                       ret |-> IF r.thrown = NoError THEN recv ELSE NoRef]
    /\ UNCHANGED <<facade, returned, helpers>>

\* stringify that hands the string out and starts a new one.
Stringify_Flush(recv) ==
    /\ last' = [op |-> "stringify", recv |-> recv, args |-> <<>>,
                thrown |-> NoError, ret |-> stringify(Deref(recv))]
    /\ builders' = IF recv.obj = "builder"
                   THEN [builders EXCEPT ![recv.idx].str = ""]
                   ELSE builders
    /\ UNCHANGED <<facade, fragments, returned, helpers>>

\* recv.stringify(), of SelectorBuilder and of cssSelectorBuilder alike.
Stringify(recv) ==
    /\ last' = [op |-> "stringify", recv |-> recv, args |-> <<>>,
                thrown |-> NoError, ret |-> stringify(Deref(recv))]
    /\ UNCHANGED <<builders, facade, fragments, returned, helpers>>

\* combine that builds the string in its first operand as well.
Combine_IntoFirstOperand(sel1, combin, sel2) ==
    /\ facade' = [str |-> combineStr(Deref(sel1), combin, Deref(sel2))]
    /\ returned' = Append(returned, facade'.str)
    /\ builders' = IF sel1.obj = "builder"
                   THEN [builders EXCEPT ![sel1.idx].str = facade'.str]
                   ELSE builders
    /\ last' = [op |-> "combine", recv |-> FacadeRef, args |-> <<sel1, combin, sel2>>,
                thrown |-> NoError,
                ret |-> [obj |-> "facade", idx |-> Len(returned) + 1]]
    /\ UNCHANGED <<fragments, helpers>>

\* cssSelectorBuilder.combine(sel1, combin, sel2)
Combine(sel1, combin, sel2) ==
    /\ facade' = [str |-> combineStr(Deref(sel1), combin, Deref(sel2))]
    /\ returned' = Append(returned, facade'.str)
    /\ last' = [op |-> "combine", recv |-> FacadeRef, args |-> <<sel1, combin, sel2>>,
                thrown |-> NoError,
                ret |-> [obj |-> "facade", idx |-> Len(returned) + 1]]
    /\ UNCHANGED <<builders, fragments, helpers>>

\* Fluent chains: fragment methods and stringify, combine never called.
Next ==
    \/ \E method \in Methods, value \in Values :
           /\ TotalFragments < MaxFragments
           /\ FacadeFragment(FacadeRef, method, value)
    \/ \E recv \in BuilderRefs, method \in Methods, value \in Values :
           /\ TotalFragments < MaxFragments
           /\ BuilderFragment(recv, method, value)
    \/ \E recv \in BuilderRefs : Stringify(recv)

Spec == Init /\ [][Next]_vars

\* Every operation of cssSelectorBuilder and of the builders.
NextCombine ==
    \/ \E recv \in {FacadeRef} \cup CompositeRefs, method \in Methods,
          value \in OperandValues :
           /\ Calls < MaxCalls
           /\ FacadeFragment(recv, method, value)
    \/ \E recv \in BuilderRefs, method \in Methods, value \in OperandValues :
           /\ Calls < MaxCalls
           /\ BuilderFragment(recv, method, value)
    \/ \E recv \in BuilderRefs \cup CompositeRefs :
           /\ Calls < MaxCalls
           /\ Stringify(recv)
    \/ \E sel1, sel2 \in BuilderRefs \cup CompositeRefs, combin \in Tokens :
           /\ Calls < MaxCalls
           /\ Combine(sel1, combin, sel2)

SpecCombine == Init /\ [][NextCombine]_vars

\* ------------------------------------------------------------- Rectangle
\* Numbers passed as width and height.
Dims == {5, 10, 20}

\* new Rectangle(width, height): the object made (this), and the scope of
\* the call, which holds the parameters and which the arrow function
\* this.getArea closes over together with this.
Rectangle(width, height) ==
    [this |-> [width |-> width, height |-> height],
     scope |-> [width |-> width, height |-> height]]

\* getArea that multiplies the parameters of the constructor.
getArea_OfParameters(closure) == closure.scope.width * closure.scope.height

\* The arrow function () => this.width * this.height.
getArea(closure) == closure.this.width * closure.this.height

\* r = new Rectangle(width, height)
NewRectangle(width, height) ==
    /\ rectangle' = Rectangle(width, height)
    /\ last' = [op |-> "Rectangle", recv |-> NoRef, args |-> <<width, height>>,
                thrown |-> NoError, ret |-> NoRef]
    /\ UNCHANGED <<selectors, json>>

\* r.width = width
SetWidth(width) ==
    /\ rectangle # NoObject
    /\ rectangle' = [rectangle EXCEPT !.this.width = width]
    /\ last' = [op |-> "width=", recv |-> NoRef, args |-> <<width>>,
                thrown |-> NoError, ret |-> NoRef]
    /\ UNCHANGED <<selectors, json>>

\* r.height = height
SetHeight(height) ==
    /\ rectangle # NoObject
    /\ rectangle' = [rectangle EXCEPT !.this.height = height]
    /\ last' = [op |-> "height=", recv |-> NoRef, args |-> <<height>>,
                thrown |-> NoError, ret |-> NoRef]
    /\ UNCHANGED <<selectors, json>>

\* r.getArea()
GetArea ==
    /\ rectangle # NoObject
    /\ last' = [op |-> "getArea", recv |-> NoRef, args |-> <<>>,
                thrown |-> NoError, ret |-> getArea(rectangle)]
    /\ UNCHANGED <<selectors, rectangle, json>>

NextRectangle ==
    \/ \E width, height \in Dims : NewRectangle(width, height)
    \/ \E width \in Dims : SetWidth(width)
    \/ \E height \in Dims : SetHeight(height)
    \/ GetArea

SpecRectangle == Init /\ [][NextRectangle]_vars

\* ------------------------------------------------------------- getJSON, fromJSON
\* An object is [fields, proto]: fields is the sequence of its own properties
\* [key, value] in insertion order, proto names its prototype.  A value is
\* [type |-> "number", n] or [type |-> "function", n |-> 0].  A JSON text is
\* the sequence of its lexemes: the punctuators, the quoted property names
\* and the digits of the numbers, one by one.
Keys == {"height", "width", "getArea"}

Number(n) == [type |-> "number", n |-> n]

Function == [type |-> "function", n |-> 0]

\* The properties the objects passed to getJSON are made of.
Properties ==
    {[key |-> k, value |-> Number(n)] : k \in {"height", "width"}, n \in Dims}
        \cup {[key |-> "getArea", value |-> Function]}

\* The objects passed to getJSON: up to three properties of different names.
Objects ==
    {[fields |-> fs, proto |-> "Object.prototype"] :
        fs \in {f \in UNION {[1..n -> Properties] : n \in 0..Cardinality(Keys)} :
                   \A i, j \in DOMAIN f : i # j => f[i].key # f[j].key}}

\* The prototypes passed to fromJSON.
Protos == {"Object.prototype", "Shape.prototype"}

\* The methods of a prototype.
MethodsOf(proto) == IF proto = "Shape.prototype" THEN {"area"} ELSE {}

\* The value of the own property key of an object.
Get(object, key) ==
    object.fields[CHOOSE i \in DOMAIN object.fields : object.fields[i].key = key].value

\* Whether the object has an own property key.
HasOwn(object, key) == \E i \in DOMAIN object.fields : object.fields[i].key = key

\* The method area of Shape.prototype: this.height * this.width.
area(this) == Get(this, "height").n * Get(this, "width").n

DigitChar(d) ==
    CASE d = 0 -> "0" [] d = 1 -> "1" [] d = 2 -> "2" [] d = 3 -> "3" [] d = 4 -> "4"
      [] d = 5 -> "5" [] d = 6 -> "6" [] d = 7 -> "7" [] d = 8 -> "8" [] d = 9 -> "9"

DigitChars == {DigitChar(d) : d \in 0..9}

DigitValue(c) == CHOOSE d \in 0..9 : DigitChar(d) = c

\* The decimal digits of a natural number.
RECURSIVE NumberToString(_)
NumberToString(n) ==
    IF n < 10 THEN <<DigitChar(n)>>
    ELSE Append(NumberToString(n \div 10), DigitChar(n % 10))

\* A property name between double quotes.
Quote(key) == "\"" \o key \o "\""

Unquote(lexeme) == CHOOSE key \in Keys : Quote(key) = lexeme

\* JSON.stringify: the members of an object, the properties whose value is
\* a function left out.
RECURSIVE SerializeMembers(_)
SerializeMembers(fields) ==
    IF fields = <<>> THEN <<>>
    ELSE LET rest == SerializeMembers(Tail(fields))
             member == <<Quote(Head(fields).key), ":">>
                           \o NumberToString(Head(fields).value.n)
         IN  IF Head(fields).value.type = "function" THEN rest
             ELSE IF rest = <<>> THEN member
             ELSE member \o <<",">> \o rest

\* JSON.stringify(obj)
JSONstringify(obj) == <<"{">> \o SerializeMembers(obj.fields) \o <<"}">>

\* JSON.parse: the number that starts at text[i], and where it ends.
RECURSIVE ParseNumber(_, _, _)
ParseNumber(text, i, n) ==
    IF i <= Len(text) /\ text[i] \in DigitChars
    THEN ParseNumber(text, i + 1, n * 10 + DigitValue(text[i]))
    ELSE [n |-> n, next |-> i]

\* JSON.parse: the members from text[i] on, after those of fields.
RECURSIVE ParseMembers(_, _, _)
ParseMembers(text, i, fields) ==
    LET number == ParseNumber(text, i + 2, 0)
        parsed == Append(fields, [key |-> Unquote(text[i]), value |-> Number(number.n)])
    IN  IF text[number.next] = ","
        THEN ParseMembers(text, number.next + 1, parsed)
        ELSE parsed

\* JSON.parse(text): a plain object.
JSONparse(text) ==
    [fields |-> IF text[2] = "}" THEN <<>> ELSE ParseMembers(text, 2, <<>>),
     proto |-> "Object.prototype"]

\* getJSON(obj)
getJSON(obj) == JSONstringify(obj)

\* fromJSON without Object.setPrototypeOf.
fromJSON_PlainObject(proto, text) == JSONparse(text)

\* fromJSON(proto, json)
fromJSON(proto, text) ==
    LET res == JSONparse(text)
    IN  [res EXCEPT !.proto = proto]

InitJSON ==
    /\ builders = <<>>
    /\ facade = <<>>
    /\ fragments = <<>>
    /\ returned = <<>>
    /\ rectangle = NoObject
    /\ json \in {[pc |-> "obj", obj |-> obj, proto |-> proto, text |-> <<>>,
                  res |-> NoObject] : obj \in Objects, proto \in Protos}
    /\ last = NoCall

\* text = getJSON(obj)
GetJSON ==
    /\ json.pc = "obj"
    /\ json' = [json EXCEPT !.pc = "text", !.text = getJSON(json.obj)]
    /\ last' = [op |-> "getJSON", recv |-> NoRef, args |-> <<>>,
                thrown |-> NoError, ret |-> NoRef]
    /\ UNCHANGED <<selectors, rectangle>>

\* res = fromJSON(proto, text)
FromJSON ==
    /\ json.pc = "text"
    /\ json' = [json EXCEPT !.pc = "res", !.res = fromJSON(json.proto, json.text)]
    /\ last' = [op |-> "fromJSON", recv |-> NoRef, args |-> <<>>,
                thrown |-> NoError, ret |-> NoRef]
    /\ UNCHANGED <<selectors, rectangle>>

\* res.area(), for a res that has the method and the two properties it reads.
CallArea ==
    /\ json.pc = "res"
    /\ ~HasOwn(json.res, "area")
    /\ "area" \in MethodsOf(json.res.proto)
    /\ HasOwn(json.res, "height")
    /\ HasOwn(json.res, "width")
    /\ last' = [op |-> "area", recv |-> NoRef, args |-> <<>>,
                thrown |-> NoError, ret |-> area(json.res)]
    /\ UNCHANGED <<selectors, rectangle, json>>

NextJSON == GetJSON \/ FromJSON \/ CallArea

SpecJSON == InitJSON /\ [][NextJSON]_vars

\* ------------------------------------------------------------- claims
\* The rank of a fragment kind: element < id < class < attribute <
\* pseudoClass < pseudoElement.
Rank(kind) ==
    CASE kind = "el" -> 1
      [] kind = "id" -> 2
      [] kind = "class" -> 3
      [] kind = "attr" -> 4
      [] kind = "pseudoClass" -> 5
      [] kind = "pseudoEl" -> 6

SingletonKinds == {"el", "id", "pseudoEl"}

\* The rendered form of a fragment.
Rendered(method, value) ==
    CASE method = "element" -> value
      [] method = "id" -> "#" \o value
      [] method = "class" -> "." \o value
      [] method = "attr" -> "[" \o value \o "]"
      [] method = "pseudoClass" -> ":" \o value
      [] method = "pseudoElement" -> "::" \o value

\* The rendered forms of a sequence of <<method, value>>, one after the other.
RECURSIVE Concatenated(_)
Concatenated(frags) ==
    IF frags = <<>> THEN ""
    ELSE Rendered(frags[1][1], frags[1][2]) \o Concatenated(Tail(frags))

\* The call made in this step is a fragment method on a SelectorBuilder that
\* has fragments already.
AppendsToBuilder ==
    /\ last'.op \in Methods
    /\ last'.recv.obj = "builder"
    /\ builders[last'.recv.idx].usedSelectors # <<>>

\* The kind appended last, before this step, to the builder this step calls.
PrecedingKind == LastOf(builders[last'.recv.idx].usedSelectors)

\* C1: in every builder, after any sequence of fragment calls, failed ones
\* included, the kinds recorded are non-decreasing by rank and each of
\* element, id and pseudoElement is recorded at most once.
C1_HistoryOrderedSingletonsOnce ==
    \A i \in 1..Len(builders) :
        LET used == builders[i].usedSelectors
        IN  /\ \A m, n \in 1..Len(used) : m < n => Rank(used[m]) <= Rank(used[n])
            /\ \A k \in SingletonKinds :
                   Cardinality({n \in 1..Len(used) : used[n] = k}) <= 1

\* C1 witness: a builder with two kinds recorded on which a call has just failed.
C1_Witness ==
    /\ last.op \in Methods
    /\ last.thrown # NoError
    /\ last.recv.obj = "builder"
    /\ Len(builders[last.recv.idx].usedSelectors) = 2

\* C2: a fragment call whose kind ranks strictly below the kind appended
\* immediately before it throws the ordering error.
C2_LowerRankThrowsOrderingError ==
    [][(AppendsToBuilder /\ Rank(SelectorOf(last'.op)) < Rank(PrecedingKind))
           => last'.thrown = error2]_vars

\* C2 witness: element called on a builder whose last kind is class threw the
\* ordering error.
C2_Witness ==
    /\ last.op = "element"
    /\ last.recv.obj = "builder"
    /\ LastOf(builders[last.recv.idx].usedSelectors) = "class"
    /\ last.thrown = error2

\* C3: element, id or pseudoElement called immediately after a fragment of
\* the same kind throws the singleton error, not the ordering error.
C3_AdjacentSingletonThrowsSingletonError ==
    [][(/\ AppendsToBuilder
        /\ SelectorOf(last'.op) = PrecedingKind
        /\ PrecedingKind \in SingletonKinds)
           => last'.thrown = error1]_vars

\* C3 witness: id called on a builder whose last kind is id threw the
\* singleton error.
C3_Witness ==
    /\ last.op = "id"
    /\ last.recv.obj = "builder"
    /\ LastOf(builders[last.recv.idx].usedSelectors) = "id"
    /\ last.thrown = error1

\* C4 as claimed: id called on a builder that recorded id, then class, does
\* not throw.
C4_SeparatedDuplicateNotRejected ==
    [][(/\ AppendsToBuilder
        /\ builders[last'.recv.idx].usedSelectors = <<"id", "class">>
        /\ last'.op = "id")
           => last'.thrown = NoError]_vars

\* C4 as amended: a fragment call of a singleton kind the builder recorded
\* before, with another kind appended last, throws the ordering error; so
\* does id after id, then class.
C4_SeparatedDuplicateThrowsOrderingError ==
    [][(/\ AppendsToBuilder
        /\ SelectorOf(last'.op) \in SingletonKinds
        /\ Includes(builders[last'.recv.idx].usedSelectors, SelectorOf(last'.op))
        /\ SelectorOf(last'.op) # PrecedingKind)
           => last'.thrown = error2]_vars

\* C4 witness: id called on a builder that recorded id, then class, threw the
\* ordering error.
C4_Witness ==
    /\ last.op = "id"
    /\ last.recv.obj = "builder"
    /\ builders[last.recv.idx].usedSelectors = <<"id", "class">>
    /\ last.thrown = error2

\* C5: the string stringify returns for a builder is the concatenation, in
\* the order of the calls and with nothing in between, of the rendered forms
\* of the fragments the builder accepted.
C5_StringifyConcatenatesRenderedFragments ==
    \A i \in 1..Len(builders) :
        stringify(builders[i]) = Concatenated(fragments[i])

\* C5 witness: stringify has returned the string of a builder that accepted
\* an element, an attribute and a pseudo-class.
C5_Witness ==
    /\ last.op = "stringify"
    /\ last.recv.obj = "builder"
    /\ fragments[last.recv.idx] =
           <<(<<"element", "a">>), (<<"attr", "b">>), (<<"pseudoClass", "a">>)>>
    /\ last.ret = "a[b]:a"

\* What stringify returns for a reference after this step.
StringifyAfter(ref) ==
    IF ref.obj = "builder" THEN stringify(builders'[ref.idx]) ELSE stringify(facade')

\* C6: the selector combine(A, token, B) returns has the string
\* stringify(A) + ' ' + token + ' ' + stringify(B), whatever the token, with
\* the strings A and B have when combine is called; so the string of a B that
\* the nested call just before returned goes in as it is.
C6_CombineJoinsWithSpacedToken ==
    [][last'.op = "combine"
           => /\ last'.ret \in CompositeRefs'
              /\ StringifyAfter(last'.ret) =
                     stringify(Deref(last'.args[1])) \o " " \o last'.args[2] \o " "
                         \o stringify(Deref(last'.args[3]))]_vars

\* C6 witness: combine(a, '+', combine(a, ' ', a)) has returned a selector
\* whose string has three spaces in a row.
C6_Witness ==
    /\ last.op = "combine"
    /\ Len(returned) = 2
    /\ last.args[1].obj = "builder"
    /\ last.args[2] = "+"
    /\ last.args[3] = [obj |-> "facade", idx |-> 1]
    /\ returned[1] = "a   a"
    /\ stringify(Deref(last.ret)) = "a + a   a"

\* C7: combine(X, t3, Y) of the selectors X and Y that two calls of combine
\* returned has
\* the string made of the string X had on return, ' ', t3, ' ' and the string
\* Y had on return.
C7_CombineOfTwoComposites ==
    (/\ last.op = "combine"
     /\ last.args[1].obj = "facade"
     /\ last.args[3].obj = "facade"
     /\ last.args[1].idx # last.args[3].idx)
        => stringify(Deref(last.ret)) =
               returned[last.args[1].idx] \o " " \o last.args[2] \o " "
                   \o returned[last.args[3].idx]

\* C8: a selector that combine returned keeps the string it had on return,
\* whatever is called on cssSelectorBuilder afterwards.
C8_CompositeKeepsItsString ==
    \A j \in 1..Len(returned) :
        stringify(Deref([obj |-> "facade", idx |-> j])) = returned[j]

\* C9: no fragment method called on a selector that combine returned succeeds.
C9_CompositeTakesNoFragment ==
    (last.op \in Methods /\ last.recv \in CompositeRefs) => last.thrown # NoError

\* C10: stringify on a builder changes no builder, neither string nor kinds
\* recorded, and returns the string accumulated: the same string at every
\* call until a fragment is appended, and later calls find the builder as it
\* was.
C10_StringifyPureRead ==
    [][(last'.op = "stringify" /\ last'.recv.obj = "builder")
           => /\ builders' = builders
              /\ last'.ret = builders[last'.recv.idx].str
              /\ last'.ret = builders'[last'.recv.idx].str]_vars

\* C10 witness: stringify has been called in the middle of a chain, on a
\* builder that can take more fragments.
C10_Witness ==
    /\ last.op = "stringify"
    /\ last.recv.obj = "builder"
    /\ last.ret = "a#b"
    /\ TotalFragments < MaxFragments

\* C11: an entry point of cssSelectorBuilder returns a builder that no
\* reference named before, and leaves every builder there was as it is; a
\* fragment method called on a builder changes no other builder and allocates
\* none.
C11_BuildersFreshAndSeparate ==
    [][last'.op \in Methods
           => /\ (last'.recv.obj = "facade" /\ last'.thrown = NoError)
                     => /\ last'.ret \notin BuilderRefs
                        /\ last'.ret \in BuilderRefs'
                        /\ \A i \in 1..Len(builders) : builders'[i] = builders[i]
              /\ last'.recv.obj = "builder"
                     => /\ Len(builders') = Len(builders)
                        /\ \A i \in 1..Len(builders) :
                               i # last'.recv.idx => builders'[i] = builders[i]]_vars

\* C11 witness: with two builders allocated, a fragment has been appended to
\* the first one.
C11_Witness ==
    /\ last.op \in Methods
    /\ last.recv = [obj |-> "builder", idx |-> 1]
    /\ last.thrown = NoError
    /\ Len(builders) = 2

\* C12: a fragment method that succeeds on a builder returns the builder it
\* was called on, and the fragment is the last one of that builder.
C12_FragmentReturnsThis ==
    (last.op \in Methods /\ last.recv.obj = "builder" /\ last.thrown = NoError)
        => /\ last.ret = last.recv
           /\ Len(fragments[last.recv.idx]) >= 2
           /\ fragments[last.recv.idx][Len(fragments[last.recv.idx])]
                  = <<last.op, last.args[1]>>
           /\ Len(builders[last.recv.idx].usedSelectors) = Len(fragments[last.recv.idx])

\* C12 witness: the third fragment of a chain has been appended to the
\* builder the first call of the chain returned.
C12_Witness ==
    /\ last.op = "class"
    /\ last.recv = [obj |-> "builder", idx |-> 1]
    /\ last.ret = last.recv
    /\ Len(fragments[1]) = 3

\* C15: a fragment call that throws changes no builder, neither string nor
\* kinds recorded, so stringify and every later call find the builder as it
\* was before the call.
C15_FailedAppendChangesNothing ==
    [][(last'.op \in Methods /\ last'.thrown # NoError)
           => /\ builders' = builders
              /\ last'.recv.obj = "builder"
              /\ StringifyAfter(last'.recv) = stringify(Deref(last'.recv))]_vars

\* C15 witness: a call has thrown on the builder of element a, id b.
C15_Witness ==
    /\ last.op \in Methods
    /\ last.thrown # NoError
    /\ last.recv.obj = "builder"
    /\ builders[last.recv.idx] = [usedSelectors |-> <<"el", "id">>, str |-> "a#b"]

\* C16: the first fragment call of a chain, made on cssSelectorBuilder,
\* succeeds for each of the six kinds and returns a builder that holds that
\* one fragment.
C16_FirstAppendSucceeds ==
    (last.op \in Methods /\ last.recv.obj = "facade")
        => /\ last.thrown = NoError
           /\ last.ret \in BuilderRefs
           /\ builders[last.ret.idx] =
                  [usedSelectors |-> <<SelectorOf(last.op)>>,
                   str |-> Rendered(last.op, last.args[1])]

\* C16 witness: a chain has been started with pseudoElement.
C16_Witness ==
    /\ last.op = "pseudoElement"
    /\ last.recv = FacadeRef
    /\ last.thrown = NoError
    /\ builders[last.ret.idx].usedSelectors = <<"pseudoEl">>

\* C17: class, attr or pseudoClass called immediately after a fragment of the
\* same kind does not throw and adds its rendered text to the string.
C17_NonSingletonsRepeat ==
    [][(/\ AppendsToBuilder
        /\ SelectorOf(last'.op) = PrecedingKind
        /\ PrecedingKind \notin SingletonKinds)
           => /\ last'.thrown = NoError
              /\ StringifyAfter(last'.recv) =
                     stringify(Deref(last'.recv)) \o Rendered(last'.op, last'.args[1])]_vars

\* C17 witness: id a, class a, class b gives the string #a.a.b.
C17_Witness ==
    /\ last.op = "class"
    /\ last.recv.obj = "builder"
    /\ last.thrown = NoError
    /\ builders[last.recv.idx] =
           [usedSelectors |-> <<"id", "class", "class">>, str |-> "#a.a.b"]

\* process with its two checks in the other order.
process_ChecksSwapped(this, selector) ==
    IF IndexOf(order, LastOf(this.usedSelectors)) > IndexOf(order, selector)
    THEN [thrown |-> error2, this |-> this]
    ELSE IF LastOf(this.usedSelectors) = selector /\ Includes(oneTimeSelectors, selector)
    THEN [thrown |-> error1, this |-> this]
    ELSE [thrown |-> NoError,
          this |-> [this EXCEPT !.usedSelectors = Append(@, selector)]]

\* The kind of this step's call is the kind appended last and a singleton kind.
RepeatsSingleton ==
    /\ AppendsToBuilder
    /\ SelectorOf(last'.op) = PrecedingKind
    /\ PrecedingKind \in SingletonKinds

\* The kind of this step's call ranks strictly below the kind appended last.
StepsDown ==
    /\ AppendsToBuilder
    /\ Rank(SelectorOf(last'.op)) < Rank(PrecedingKind)

\* C18: a fragment call throws nothing, the singleton error or the ordering
\* error: the singleton error exactly when its kind is the kind appended last
\* and a singleton kind, the ordering error exactly when its kind ranks
\* strictly below the kind appended last; the two never hold together, and
\* process with its checks in the other order decides every call alike.
C18_OneDeterminateError ==
    [][last'.op \in Methods
           => /\ last'.thrown \in {NoError, error1, error2}
              /\ last'.thrown = error1 <=> RepeatsSingleton
              /\ last'.thrown = error2 <=> StepsDown
              /\ ~(RepeatsSingleton /\ StepsDown)
              /\ \A i \in 1..Len(builders) :
                     process_ChecksSwapped(builders[i], SelectorOf(last'.op))
                         = process(builders[i], SelectorOf(last'.op))]_vars

\* C18 witness: a call has thrown the singleton error on a builder on which
\* another kind would have thrown the ordering error.
C18_Witness ==
    /\ last.op = "pseudoElement"
    /\ last.thrown = error1
    /\ last.recv.obj = "builder"
    /\ Len(builders[last.recv.idx].usedSelectors) = 2

\* C19: combine changes no builder, neither string nor kinds recorded, and a
\* fragment call made after a combine returned leaves the string of the
\* selector it returned as it is.
C19_CombineSnapshotsOperands ==
    [][/\ last'.op = "combine" => builders' = builders
       /\ (last'.op \in Methods /\ returned # <<>>)
              => /\ returned' = returned
                 /\ \A c \in CompositeRefs : StringifyAfter(c) = stringify(Deref(c))]_vars

\* C19 witness: id has been appended to the builder of element a after
\* combine(a, '+', a) returned, and the selector returned still reads a + a.
C19_Witness ==
    /\ last.op = "id"
    /\ last.thrown = NoError
    /\ last.recv = [obj |-> "builder", idx |-> 1]
    /\ last.recv \in BuilderRefs
    /\ builders[1].str = "a#a"
    /\ returned = <<"a + a">>
    /\ stringify(Deref([obj |-> "facade", idx |-> 1])) = "a + a"

\* C13: getArea returns the product of the width and the height the
\* rectangle has when it is called: 200 for a rectangle made with 10 and 20,
\* and 100 once its width has been set to 5.
C13_AreaOfCurrentWidthAndHeight ==
    last.op = "getArea"
        => /\ last.ret = rectangle.this.width * rectangle.this.height
           /\ (rectangle.this.width = 10 /\ rectangle.this.height = 20) => last.ret = 200
           /\ (rectangle.this.width = 5 /\ rectangle.this.height = 20) => last.ret = 100

\* C13 witness: getArea has returned 100 for a rectangle made with 10 and 20
\* whose width was set to 5.
C13_Witness ==
    /\ last.op = "getArea"
    /\ rectangle.scope = [width |-> 10, height |-> 20]
    /\ rectangle.this = [width |-> 5, height |-> 20]
    /\ last.ret = 100

\* The properties of an object whose value is not a function.
DataFields(object) == SelectSeq(object.fields, LAMBDA f : f.value.type # "function")

====
